---- MODULE Spec2Model ----
(***************************************************************************)
(* GitHub -> Telegram webhook relay (lshaf/github-telegram).               *)
(*                                                                         *)
(* Two builds of the server exist in the repository: src/main.ts (no       *)
(* signature check) and src/unnamed/part_000 (signature check).  The       *)
(* variable `variant` says which one is running.  The model covers the     *)
(* requests that body-parser hands to the route handler: a request with a  *)
(* JSON content type whose body is empty or parses as JSON.                *)
(*                                                                         *)
(* Text is modelled by TLA+ strings, byte buffers by sequences of 0..255.  *)
(***************************************************************************)
EXTENDS Integers, Sequences, FiniteSets, TLC

VARIABLES variant, runtime, configFile, projectConfigs, reqs, procUp

vars == <<variant, runtime, configFile, projectConfigs, reqs, procUp>>

(***************************************************************************)
(* Bounds of the model.                                                    *)
(***************************************************************************)
\* number of request slots that may be in flight at once (ConcSpec)
MaxInFlight == 2
\* length in bytes of the modelled HMAC digest (32 in SHA-256)
DigestBytes == 2
\* number of file paths in the longest added/modified/removed list
MaxFiles == 11

(***************************************************************************)
(* JavaScript values.                                                      *)
(***************************************************************************)
\* what a template literal prints for undefined, and the marker of an
\* absent header or property where a string is expected
Undefined == "undefined"

Min(a, b) == IF a < b THEN a ELSE b

\* String.prototype.startsWith
StartsWith(s, p) == Len(s) >= Len(p) /\ SubSeq(s, 1, Len(p)) = p

\* String.prototype.slice(from) with 0 <= from
SliceFrom(s, from) == SubSeq(s, from + 1, Len(s))

\* String.prototype.slice(0, n)
SliceTo(s, n) == SubSeq(s, 1, Min(n, Len(s)))

\* obj.field of a JSON object, undefined when the property is absent
Prop(obj, field) == IF field \in DOMAIN obj THEN obj[field] ELSE Undefined

(***************************************************************************)
(* crypto: HMAC, hex encoding and the lenient hex decoding of Buffer.from. *)
(***************************************************************************)
HexDigits == "0123456789abcdef"

HexChar(n) == SubSeq(HexDigits, n + 1, n + 1)

\* value of one hex character, -1 when it is none; Node accepts both cases
HexVal(c) ==
  CASE c = "0" -> 0  [] c = "1" -> 1  [] c = "2" -> 2  [] c = "3" -> 3
    [] c = "4" -> 4  [] c = "5" -> 5  [] c = "6" -> 6  [] c = "7" -> 7
    [] c = "8" -> 8  [] c = "9" -> 9
    [] c = "a" -> 10 [] c = "b" -> 11 [] c = "c" -> 12
    [] c = "d" -> 13 [] c = "e" -> 14 [] c = "f" -> 15
    [] c = "A" -> 10 [] c = "B" -> 11 [] c = "C" -> 12
    [] c = "D" -> 13 [] c = "E" -> 14 [] c = "F" -> 15
    [] OTHER -> -1

RECURSIVE HexEncode(_)
\* Buffer.toString('hex') / hmac.digest('hex'): two lower-case digits a byte
HexEncode(bytes) ==
  IF bytes = <<>> THEN ""
  ELSE HexChar(Head(bytes) \div 16) \o HexChar(Head(bytes) % 16)
       \o HexEncode(Tail(bytes))

RECURSIVE HexDecodeFrom(_, _)
HexDecodeFrom(s, i) ==
  IF i + 1 > Len(s) THEN <<>>
  ELSE LET hi == HexVal(SubSeq(s, i, i))
           lo == HexVal(SubSeq(s, i + 1, i + 1))
       IN IF hi < 0 \/ lo < 0 THEN <<>>
          ELSE <<hi * 16 + lo>> \o HexDecodeFrom(s, i + 2)

\* Buffer.from(s, 'hex'): decodes pairs of digits, stops at the first pair
\* that is not hex and drops a trailing single digit
BufferFromHex(s) == HexDecodeFrom(s, 1)

RECURSIVE Mix(_, _)
Mix(bytes, h) ==
  IF bytes = <<>> THEN h
  ELSE Mix(Tail(bytes), (h * 33 + Head(bytes) + 1) % 65536)

\* crypto.createHmac('sha256', key).update(data).digest(): a keyed digest of
\* DigestBytes bytes that depends on every byte of the key and of the data
createHmac(key, data) ==
  [i \in 1..DigestBytes |->
     Mix(data, Mix(key, 5381 + 977 * i)) % 256]

\* crypto.timingSafeEqual: byte-wise equality of two buffers of equal length
\* (it throws a RangeError on buffers of different lengths)
timingSafeEqual(a, b) == \A i \in 1..Len(a) : a[i] = b[i]

(***************************************************************************)
(* ConfigStore: config.json and loadProjectConfigs.                        *)
(***************************************************************************)
\* the secret the sender (GitHub) signs with, and another one
SenderKey == <<11, 25>>
OtherKey == <<11, 26>>

\* two readable, well-formed config.json contents.  A project maps to
\* {botToken, chatId, threadId?, webhookSecret?}; a secret is a byte string.
ConfigA ==
  [alpha |-> [botToken |-> "111:AAA", chatId |-> "-1001", threadId |-> "7",
              webhookSecret |-> SenderKey],
   beta  |-> [botToken |-> "222:BBB", chatId |-> "@beta"]]

ConfigB ==
  [alpha |-> [botToken |-> "111:AAA", chatId |-> "-1001",
              webhookSecret |-> OtherKey],
   beta  |-> [botToken |-> "222:BBB", chatId |-> "@beta", threadId |-> "9",
              webhookSecret |-> <<>>]]

\* the states config.json can be in when the process starts
ConfigFiles ==
  { [exists |-> FALSE, readable |-> FALSE, text |-> "none"],
    [exists |-> TRUE,  readable |-> FALSE, text |-> "none"],
    [exists |-> TRUE,  readable |-> TRUE,  text |-> "{ not json"],
    [exists |-> TRUE,  readable |-> TRUE,  text |-> "A"],
    [exists |-> TRUE,  readable |-> TRUE,  text |-> "B"] }

\* JSON.parse of the file's text: ok is FALSE when it throws a SyntaxError
JsonParseConfig(text) ==
  CASE text = "A" -> [ok |-> TRUE, value |-> ConfigA]
    [] text = "B" -> [ok |-> TRUE, value |-> ConfigB]
    [] OTHER      -> [ok |-> FALSE, value |-> <<>>]

\* the empty object literal {}
EmptyObject == [x \in {} |-> Undefined]

loadProjectConfigs(file) ==
  IF ~file.exists THEN EmptyObject                 \* config.json not found
  ELSE IF ~file.readable THEN EmptyObject          \* readFileSync throws
  ELSE LET parsed == JsonParseConfig(file.text)
       IN IF parsed.ok THEN parsed.value
          ELSE EmptyObject                         \* JSON.parse throws

\* property names every object inherits from Object.prototype
ObjectPrototypeKeys ==
  {"constructor", "__proto__", "toString", "valueOf", "hasOwnProperty"}

\* projectConfigs[projectName]: an own property, else a property inherited
\* from Object.prototype (a function or object: truthy, with none of the
\* config's fields), else undefined
Lookup(configs, projectName) ==
  IF projectName \in DOMAIN configs
    THEN [kind |-> "own", value |-> configs[projectName]]
  ELSE IF projectName \in ObjectPrototypeKeys
    THEN [kind |-> "inherited", value |-> EmptyObject]
  ELSE [kind |-> "undefined", value |-> EmptyObject]

\* a config field that holds a string, or undefined
ConfigField(config, field) == Prop(config.value, field)

\* a check for the presence of the field that takes "" for a secret
HasSecretField(config) == "webhookSecret" \in DOMAIN config.value

\* config.webhookSecret is truthy: present and not the empty string
HasSecret(config) ==
  /\ "webhookSecret" \in DOMAIN config.value
  /\ config.value.webhookSecret # <<>>

(***************************************************************************)
(* Request bodies.                                                         *)
(***************************************************************************)
FileList(n) == [i \in 1..n |-> "f" \o ToString(i)]

Pusher == [t |-> "object", name |-> "alice"]
Repository ==
  [t |-> "object", name |-> "repo", html_url |-> "https://x/repo"]

\* the commit of the spec's formatting example
CommitFull ==
  [id |-> "abcdef1234567", message |-> "fix bug",
   url |-> "https://x/commit/abcdef1234567", author |-> [name |-> "alice"],
   added |-> <<"a.txt">>, modified |-> <<>>, removed |-> <<>>]

\* no author, no file lists, an id shorter than seven characters, a message
\* of two lines
CommitBare ==
  [id |-> "12345", message |-> "line1\nline2", url |-> "https://x/c/12345"]

\* an author without a name, an id of seven characters, long file lists
CommitWide ==
  [id |-> "7654321", message |-> "wip", url |-> "https://x/c/7654321",
   author |-> [email |-> "bob@x"], added |-> FileList(MaxFiles),
   modified |-> <<"m1", "m2">>, removed |-> FileList(MaxFiles - 1)]

\* a commit without an id
CommitNoId == [message |-> "no id", url |-> "https://x/c/none"]

Commits(items) == [t |-> "array", items |-> items]

\* the parsed JSON bodies of the model; a present field is tagged with the
\* kind of its value (null, falsy = 0/""/false, object, array)
Payloads ==
  << [zen |-> "Keep it logically awesome."],
     [repository |-> Repository, commits |-> Commits(<<CommitFull>>)],
     [pusher |-> Pusher, commits |-> Commits(<<CommitFull>>)],
     [pusher |-> Pusher, repository |-> Repository],
     [pusher |-> [t |-> "null"], repository |-> Repository,
      commits |-> Commits(<<CommitFull>>)],
     [pusher |-> Pusher, repository |-> Repository,
      commits |-> [t |-> "falsy"]],
     [pusher |-> Pusher, repository |-> Repository, commits |-> Commits(<<>>)],
     [pusher |-> Pusher, repository |-> Repository,
      commits |-> Commits(<<CommitFull, CommitBare, CommitWide>>)],
     [pusher |-> Pusher, repository |-> Repository,
      commits |-> Commits(<<CommitWide, CommitFull>>)],
     [pusher |-> Pusher, repository |-> Repository,
      commits |-> Commits(<<CommitFull, CommitNoId>>)],
     [pusher |-> Pusher, repository |-> Repository,
      commits |-> [t |-> "object"]] >>

\* the bytes of a request body: none, or the code of a payload followed by
\* insignificant white space (32)
RawBodies ==
  {<<>>} \cup {<<k>> : k \in 1..Len(Payloads)} \cup {<<8, 32>>}

\* bodyParser.json: req.body is {} for an empty body, else the parsed JSON
JsonParseBody(raw) == IF raw = <<>> THEN EmptyObject ELSE Payloads[raw[1]]

\* a verify hook that keeps the empty buffer as raw body too
rawBodySaverKeepsEmpty(buf) == [hasRaw |-> TRUE, rawBody |-> buf]

\* rawBodySaver, the verify hook: req.rawBody is set only for a non-empty
\* buffer.  hasRaw FALSE stands for req.rawBody undefined.
rawBodySaver(buf) ==
  IF buf # <<>> THEN [hasRaw |-> TRUE, rawBody |-> buf]
  ELSE [hasRaw |-> FALSE, rawBody |-> <<>>]

(***************************************************************************)
(* MessageFormatter.                                                       *)
(***************************************************************************)
\* the width of the commit id prefix: c.id.slice(0, 7)
IdPrefixLen == 7

\* a count that reads the length of a list that may be absent as 1
FileCountNoDefault(c, field) == IF field \in DOMAIN c THEN Len(c[field]) ELSE 1

\* c.added?.length || 0
FileCount(c, field) == IF field \in DOMAIN c THEN Len(c[field]) ELSE 0

\* c.author?.name ?? 'unknown'
AuthorName(c) ==
  IF "author" \in DOMAIN c /\ "name" \in DOMAIN c.author
    THEN c.author.name
    ELSE "unknown"

\* c.id.slice throws a TypeError when the commit has no id
CommitThrows(c) == "id" \notin DOMAIN c

\* the template literal of the map callback
CommitLine(c) ==
  "- " \o Prop(c, "message")
  \o " ([" \o SliceTo(c.id, IdPrefixLen) \o "](" \o Prop(c, "url") \o "))"
  \o " by " \o AuthorName(c)
  \o " (added: " \o ToString(FileCount(c, "added"))
  \o ", modified: " \o ToString(FileCount(c, "modified"))
  \o ", removed: " \o ToString(FileCount(c, "removed")) \o ")"

RECURSIVE Join(_, _)
\* Array.prototype.join
Join(lines, sep) ==
  IF lines = <<>> THEN ""
  ELSE IF Len(lines) = 1 THEN lines[1]
  ELSE lines[1] \o sep \o Join(Tail(lines), sep)

\* commits.map(...).join('\n')
commitMessages(commits) ==
  Join([i \in 1..Len(commits.items) |-> CommitLine(commits.items[i])], "\n")

\* building the message throws a TypeError: commits has no map method (it is
\* undefined or no array), a commit has no id, or pusher or repository is
\* undefined or null when its name is read
FormatThrows(payload) ==
  \/ "commits" \notin DOMAIN payload
  \/ payload.commits.t # "array"
  \/ \E i \in 1..Len(payload.commits.items) :
        CommitThrows(payload.commits.items[i])
  \/ \E f \in {"pusher", "repository"} :
        f \notin DOMAIN payload \/ payload[f].t = "null"

\* the emoji that opens the message, as each file spells it
RocketMain == "<U+1F680>"
RocketSigned == "<U+00F0><U+0178><U+0161><U+20AC>"

\* the text between the header line and the commit lines
HeaderSep(v) == IF v = "main" THEN "\n" ELSE "\n\n"

ParseMode(v) == IF v = "main" THEN "Markdown" ELSE "MarkdownV2"

\* const message = `... *${pusher.name}* pushed to [...](...):\n...`
message(v, payload) ==
  (IF v = "main" THEN RocketMain ELSE RocketSigned)
  \o " *" \o Prop(payload.pusher, "name") \o "* pushed to ["
  \o Prop(payload.repository, "name") \o "]("
  \o Prop(payload.repository, "html_url") \o "):"
  \o HeaderSep(v) \o commitMessages(payload.commits)

(***************************************************************************)
(* PayloadValidator.                                                       *)
(***************************************************************************)
\* a test for null only, which takes 0, "" and false for values
TruthyNonNull(value) == value.t # "null"

\* a JSON value is truthy unless it is null, 0, "" or false
Truthy(value) == value.t \notin {"null", "falsy"}

\* a validator that rejects null and falsy fields but lets absent ones pass
MalformedIgnoresAbsent(payload) ==
  \E f \in {"pusher", "repository", "commits"} :
     f \in DOMAIN payload /\ ~Truthy(payload[f])

\* !pusher || !repository || !commits
Malformed(payload) ==
  \E f \in {"pusher", "repository", "commits"} :
     f \notin DOMAIN payload \/ ~Truthy(payload[f])

(***************************************************************************)
(* Notifier: the axios.post call.                                          *)
(***************************************************************************)
TELEGRAM_API_DOMAIN == "https://api.telegram.org"

\* a main.ts that sends no thread id
sendMessageNoThreadInMain(v, config, text) ==
  [url |-> TELEGRAM_API_DOMAIN \o "/bot" \o ConfigField(config, "botToken")
           \o "/sendMessage",
   chat_id |-> ConfigField(config, "chatId"),
   message_thread_id |-> IF v = "main" THEN Undefined
                         ELSE ConfigField(config, "threadId"),
   text |-> text,
   parse_mode |-> ParseMode(v),
   disable_web_page_preview |-> TRUE]

sendMessage(v, config, text) ==
  [url |-> TELEGRAM_API_DOMAIN \o "/bot" \o ConfigField(config, "botToken")
           \o "/sendMessage",
   chat_id |-> ConfigField(config, "chatId"),
   message_thread_id |-> ConfigField(config, "threadId"),
   text |-> text,
   parse_mode |-> ParseMode(v),
   disable_web_page_preview |-> TRUE]

(***************************************************************************)
(* Router: the synchronous part of the POST /webhook/:projectName handler, *)
(* up to its response or to the await of axios.post.                       *)
(***************************************************************************)
NoResponse == [status |-> 0, body |-> "none"]
Response(status, body) == [status |-> status, body |-> body]

\* the handler answered: no call, no suspension
Answer(trace, status, body) ==
  [outcome |-> "responded", res |-> Response(status, body), calls |-> <<>>,
   trace |-> trace]

\* PayloadValidator, MessageFormatter and the issue of the Notifier call,
\* the same code in both files
\* a formatter that puts the target chat into the text
DeliverNamesChat(v, config, payload, trace) ==
  IF Malformed(payload)
    THEN Answer(trace \o <<"validate">>, 400,
                "Malformed GitHub push event payload")
  ELSE IF FormatThrows(payload)
    THEN [outcome |-> "threw", res |-> NoResponse, calls |-> <<>>,
          trace |-> trace \o <<"validate", "format">>]
  ELSE [outcome |-> "awaiting", res |-> NoResponse,
        calls |-> <<sendMessage(v, config,
                                message(v, payload) \o "\n"
                                  \o ConfigField(config, "chatId"))>>,
        trace |-> trace \o <<"validate", "format", "post">>]

Deliver(v, config, payload, trace) ==
  IF Malformed(payload)
    THEN Answer(trace \o <<"validate">>, 400,
                "Malformed GitHub push event payload")
  ELSE IF FormatThrows(payload)
    THEN [outcome |-> "threw", res |-> NoResponse, calls |-> <<>>,
          trace |-> trace \o <<"validate", "format">>]
  ELSE [outcome |-> "awaiting", res |-> NoResponse,
        calls |-> <<sendMessage(v, config, message(v, payload))>>,
        trace |-> trace \o <<"validate", "format", "post">>]

\* src/main.ts
HandlerMain(configs, req) ==
  LET config == Lookup(configs, req.projectName)
  IN IF config.kind = "undefined"
       THEN Answer(<<"lookup">>, 404, "Project config not found")
     ELSE Deliver("main", config, req.body, <<"lookup">>)

\* sigBuf.length !== digestBuf.length, the left operand of the || that
\* guards the comparison
LengthsDiffer(sigBuf, digestBuf) == Len(sigBuf) # Len(digestBuf)

\* crypto.timingSafeEqual throws a RangeError on buffers of unequal length
TimingSafeEqualThrows(a, b) == Len(a) # Len(b)

SignaturePrefix == "sha256="

\* the stages a request passes before its signature is compared
SignedStages == <<"lookup", "ping", "secret", "header", "rawBody", "hmac">>

\* src/unnamed/part_000
HandlerSigned(configs, req) ==
  LET config == Lookup(configs, req.projectName)
      signatureHeader == req.signature
      digest == HexEncode(createHmac(config.value.webhookSecret, req.rawBody))
      signature == SliceFrom(signatureHeader, Len(SignaturePrefix))
      sigBuf == BufferFromHex(signature)
      digestBuf == BufferFromHex(digest)
  IN IF config.kind = "undefined"
       THEN Answer(<<"lookup">>, 404, "Project config not found")
     ELSE IF req.event = "ping"
       THEN Answer(<<"lookup", "ping">>, 200, "pong")
     ELSE IF ~HasSecret(config)
       THEN Answer(<<"lookup", "ping", "secret">>, 500,
                   "Webhook secret not configured for this project")
     ELSE IF signatureHeader = Undefined \/ signatureHeader = ""
             \/ ~StartsWith(signatureHeader, SignaturePrefix)
       THEN Answer(<<"lookup", "ping", "secret", "header">>, 401,
                   "Missing or invalid signature")
     ELSE IF ~req.hasRaw
       THEN Answer(<<"lookup", "ping", "secret", "header", "rawBody">>, 400,
                   "Missing raw body for signature validation")
     ELSE IF LengthsDiffer(sigBuf, digestBuf)
       THEN Answer(SignedStages, 401, "Invalid signature")
     ELSE IF TimingSafeEqualThrows(sigBuf, digestBuf)
       THEN [outcome |-> "threw", res |-> NoResponse, calls |-> <<>>,
             trace |-> SignedStages \o <<"timingSafeEqual">>]
     ELSE IF ~timingSafeEqual(sigBuf, digestBuf)
       THEN Answer(SignedStages \o <<"timingSafeEqual">>, 401,
                   "Invalid signature")
     ELSE Deliver("signed", config, req.body,
                  SignedStages \o <<"timingSafeEqual">>)

(***************************************************************************)
(* Requests.                                                               *)
(***************************************************************************)
ProjectNames == {"alpha", "beta", "constructor", "ghost"}

\* the x-github-event header; Undefined when the request has none
Events == {"ping", "push", Undefined}

RECURSIVE ToUpperHex(_)
ToUpperHex(s) ==
  IF s = "" THEN ""
  ELSE LET c == SubSeq(s, 1, 1)
           up == CASE c = "a" -> "A" [] c = "b" -> "B" [] c = "c" -> "C"
                   [] c = "d" -> "D" [] c = "e" -> "E" [] c = "f" -> "F"
                   [] OTHER -> c
       IN up \o ToUpperHex(SubSeq(s, 2, Len(s)))

\* another hex digit than c
OtherDigit(c) == IF c = "0" THEN "1" ELSE "0"

\* the x-hub-signature-256 headers a sender may put on a body it signs with
\* SenderKey: none, empty, a wrong or missing prefix, the digest, and texts
\* that differ from the digest in case, in length or in one digit
Signatures(raw) ==
  LET d == HexEncode(createHmac(SenderKey, raw))
  IN { Undefined, "", d, "sha1=" \o d, SignaturePrefix,
       SignaturePrefix \o d,
       SignaturePrefix \o ToUpperHex(d),
       SignaturePrefix \o d \o "zz",
       SignaturePrefix \o d \o "0",
       SignaturePrefix \o d \o "00",
       SignaturePrefix \o SubSeq(d, 1, Len(d) - 2),
       SignaturePrefix \o OtherDigit(SubSeq(d, 1, 1)) \o SubSeq(d, 2, Len(d)) }

\* a request as it arrives: path parameter, the two headers, body bytes
Inputs ==
  UNION { { [projectName |-> p, event |-> e, signature |-> g, raw |-> b] :
            p \in ProjectNames, e \in Events, g \in Signatures(b) } :
          b \in RawBodies }

\* the requests sent by concurrent clients
ConcInputs ==
  { in \in Inputs :
      /\ in.projectName \in {"alpha", "beta"}
      /\ in.event = "push"
      /\ in.raw \in {<<3>>, <<8>>, <<10>>}
      /\ in.signature \in
           {Undefined, SignaturePrefix \o HexEncode(createHmac(SenderKey, in.raw))} }

\* the req object the middleware hands to the handler: bodyParser.json sets
\* body, and in part_000 its verify hook rawBodySaver sets rawBody
Request(v, in) ==
  LET saved == IF v = "signed" THEN rawBodySaver(in.raw)
               ELSE [hasRaw |-> FALSE, rawBody |-> <<>>]
  IN [projectName |-> in.projectName, event |-> in.event,
      signature |-> in.signature, body |-> JsonParseBody(in.raw),
      hasRaw |-> saved.hasRaw, rawBody |-> saved.rawBody]

Handler(v, configs, in) ==
  IF v = "main" THEN HandlerMain(configs, Request(v, in))
  ELSE HandlerSigned(configs, Request(v, in))

(***************************************************************************)
(* The server as a state machine.                                          *)
(***************************************************************************)
Variants == {"main", "signed"}

Slots == 1..MaxInFlight

NoInput ==
  [projectName |-> "none", event |-> Undefined, signature |-> Undefined,
   raw |-> <<>>]

\* a free slot.  pc is the handler's position, in the request, res the
\* response sent (NoResponse while there is none), calls the axios.post
\* calls issued for the request, axios the state of the call awaited, trace
\* the stages the handler went through
Idle ==
  [pc |-> "idle", in |-> NoInput, res |-> NoResponse, calls |-> <<>>,
   axios |-> "none", trace |-> <<>>]

\* res.status(200).send('OK')
DeliveryOk == Response(200, "OK")

\* a catch block that reports success
DeliveryFailureSwallowed == Response(200, "OK")

\* res.status(500).json({ error: 'Failed to send Telegram message', ... })
DeliveryFailure == Response(500, "Failed to send Telegram message")

\* what becomes of an exception thrown inside the async handler, which the
\* installed Express and Node decide (variable runtime): Express 5 answers
\* 500 through its error handler; Express 4 leaves the rejection unhandled,
\* which ends the process (Node >= 15) or only logs a warning
Fates == {"express5", "exit", "warn"}

Init ==
  /\ variant \in Variants
  /\ runtime \in Fates
  /\ configFile \in ConfigFiles
  /\ projectConfigs = loadProjectConfigs(configFile)
  /\ reqs = [r \in Slots |-> Idle]
  /\ procUp = TRUE

\* a request arrives in slot r and the handler runs to its response, to the
\* await of axios.post or to an exception
Handle(r, in) ==
  /\ procUp
  /\ reqs[r].pc = "idle"
  /\ LET h == Handler(variant, projectConfigs, in)
     IN /\ reqs' = [reqs EXCEPT ![r] =
               [pc |-> CASE h.outcome = "responded" -> "done"
                         [] h.outcome = "awaiting" -> "awaiting"
                         [] OTHER -> IF runtime = "express5" THEN "done"
                                     ELSE "threw",
                in |-> in,
                res |-> IF h.outcome = "threw" /\ runtime = "express5"
                          THEN Response(500, "Internal Server Error")
                          ELSE h.res,
                calls |-> h.calls,
                axios |-> IF h.outcome = "awaiting" THEN "pending" ELSE "none",
                trace |-> h.trace]]
        /\ procUp' = ~(h.outcome = "threw" /\ runtime = "exit")
  /\ UNCHANGED <<variant, runtime, configFile, projectConfigs>>

\* axios.post resolves: res.status(200).send('OK')
AxiosResolve(r) ==
  /\ procUp
  /\ reqs[r].pc = "awaiting"
  /\ reqs' = [reqs EXCEPT ![r].pc = "done", ![r].axios = "resolved",
                          ![r].res = DeliveryOk]
  /\ UNCHANGED <<variant, runtime, configFile, projectConfigs, procUp>>

\* a catch block that posts the message again instead of answering
AxiosRejectRetry(r) ==
  /\ procUp
  /\ reqs[r].pc = "awaiting"
  /\ reqs' = [reqs EXCEPT ![r].calls = @ \o @]
  /\ UNCHANGED <<variant, runtime, configFile, projectConfigs, procUp>>

\* axios.post rejects: the catch block answers 500
AxiosReject(r) ==
  /\ procUp
  /\ reqs[r].pc = "awaiting"
  /\ reqs' = [reqs EXCEPT ![r].pc = "done", ![r].axios = "rejected",
                          ![r].res = DeliveryFailure]
  /\ UNCHANGED <<variant, runtime, configFile, projectConfigs, procUp>>

\* the exchange in slot r is over: the response has been sent, or the client
\* has given up on a request that is never answered; the slot is free again
\* an end of exchange that drops the loaded configs
CloseDropsConfigs(r) ==
  /\ procUp
  /\ reqs[r].pc \in {"done", "threw"}
  /\ reqs' = [reqs EXCEPT ![r] = Idle]
  /\ projectConfigs' = EmptyObject
  /\ UNCHANGED <<variant, runtime, configFile, procUp>>

Close(r) ==
  /\ procUp
  /\ reqs[r].pc \in {"done", "threw"}
  /\ reqs' = [reqs EXCEPT ![r] = Idle]
  /\ UNCHANGED <<variant, runtime, configFile, projectConfigs, procUp>>

\* one client that sends its next request after the previous one has ended
Receive == \E in \in Inputs : Handle(1, in)
Resolve == AxiosResolve(1)
Reject == AxiosReject(1)
Finish == Close(1)

Next == Receive \/ Resolve \/ Reject \/ Finish

Spec == Init /\ [][Next]_vars

\* up to MaxInFlight clients at once
ConcReceive == \E r \in Slots : \E in \in ConcInputs : Handle(r, in)
ConcResolve == \E r \in Slots : AxiosResolve(r)
ConcReject == \E r \in Slots : AxiosReject(r)

ConcFinish == \E r \in Slots : Close(r)

ConcNext == ConcReceive \/ ConcResolve \/ ConcReject \/ ConcFinish

ConcSpec == Init /\ [][ConcNext]_vars

(***************************************************************************)
(* Properties.                                                             *)
(***************************************************************************)
\* the request in slot r has been handed to the handler
Arrived(r) == reqs[r].pc # "idle"

\* its projectName is a key of the loaded ProjectConfigs mapping
Configured(r) == reqs[r].in.projectName \in DOMAIN projectConfigs

\* the parsed body of the request in slot r
Payload(r) == JsonParseBody(reqs[r].in.raw)

\* the stages its handler went through
Stages(r) == {reqs[r].trace[i] : i \in DOMAIN reqs[r].trace}

\* the Notifier was invoked for it
Notified(r) == reqs[r].calls # <<>>

\* C1: a request whose projectName is no key of ProjectConfigs is answered
\* 404 and the Notifier is never invoked for it, whatever its headers and
\* body are.
C1_UnknownProjectIs404 ==
  \A r \in Slots :
     (Arrived(r) /\ ~Configured(r))
       => (reqs[r].res.status = 404 /\ ~Notified(r))

\* C2: a request to a configured project whose event-type header is "ping"
\* is answered 200 "pong" and reaches neither the signature check, nor the
\* payload check, nor the Notifier.
C2_PingIsPong ==
  \A r \in Slots :
     (Arrived(r) /\ Configured(r) /\ reqs[r].in.event = "ping")
       => /\ reqs[r].res = Response(200, "pong")
          /\ ~Notified(r)
          /\ Stages(r) \cap {"secret", "header", "rawBody", "hmac",
                             "timingSafeEqual", "validate", "format", "post"}
               = {}

\* the config of the project the request in slot r names
ConfigOf(r) == Lookup(projectConfigs, reqs[r].in.projectName)

\* its project defines no secret, or the empty string
NoSecret(r) ==
  \/ "webhookSecret" \notin DOMAIN ConfigOf(r).value
  \/ ConfigOf(r).value.webhookSecret = <<>>

\* the header text after the sha256= prefix
SignatureText(r) == SliceFrom(reqs[r].in.signature, Len(SignaturePrefix))

\* the hex digest of the request's raw body keyed by its project's secret
ExpectedDigest(r) ==
  HexEncode(createHmac(ConfigOf(r).value.webhookSecret, reqs[r].in.raw))

\* a non-ping request to a project with a non-empty secret, run by the
\* signature-checking build, with a non-empty raw body and a signature
\* header that starts with sha256=
SignedCase(r) ==
  /\ variant = "signed"
  /\ Arrived(r)
  /\ Configured(r)
  /\ ~NoSecret(r)
  /\ reqs[r].in.event # "ping"
  /\ reqs[r].in.raw # <<>>
  /\ reqs[r].in.signature # Undefined
  /\ StartsWith(reqs[r].in.signature, SignaturePrefix)

\* C3: in that case the request passes signature verification (is not
\* answered 401) if and only if the text after sha256= equals the hex
\* HMAC-SHA256 digest of the raw body keyed by the project's secret.
C3_VerifiesIffDigestText ==
  \A r \in Slots :
     SignedCase(r)
       => ((reqs[r].res.status # 401) <=> (SignatureText(r) = ExpectedDigest(r)))

\* C5: a signature text whose length differs from that of the expected hex
\* digest is answered 401, and timingSafeEqual never runs on buffers of
\* unequal length.
C5_LengthMismatchIs401 ==
  \A r \in Slots :
     SignedCase(r)
       => /\ (Len(SignatureText(r)) # Len(ExpectedDigest(r)))
               => reqs[r].res.status = 401
          /\ ("timingSafeEqual" \in Stages(r))
               => Len(BufferFromHex(SignatureText(r)))
                    = Len(BufferFromHex(ExpectedDigest(r)))

\* config.json is absent, unreadable or does not parse
ConfigLoadFails ==
  \/ ~configFile.exists
  \/ ~configFile.readable
  \/ ~JsonParseConfig(configFile.text).ok

\* C9: when loading the configuration fails the process runs with an empty
\* ProjectConfigs mapping and answers every request 404 without invoking the
\* Notifier.
C9_LoadFailureIsAll404 ==
  ConfigLoadFails
    => /\ procUp
       /\ DOMAIN projectConfigs = {}
       /\ \A r \in Slots :
             Arrived(r) => (reqs[r].res.status = 404 /\ ~Notified(r))

\* the parsed payload lacks pusher, repository or commits
MissingField(r) ==
  \E f \in {"pusher", "repository", "commits"} : f \notin DOMAIN Payload(r)

\* C4 as stated: a non-ping request to a configured project whose payload
\* lacks pusher, repository or commits is answered 400, whatever its
\* signature is.
C4_MissingFieldIs400 ==
  \A r \in Slots :
     (Arrived(r) /\ Configured(r) /\ reqs[r].in.event # "ping"
        /\ MissingField(r))
       => reqs[r].res.status = 400

\* the status the signature stage of part_000 answers with before the
\* payload is looked at, 0 when it lets the request through
SignatureStageStatus(r) ==
  IF NoSecret(r) THEN 500
  ELSE IF reqs[r].in.signature \in {Undefined, ""}
          \/ ~StartsWith(reqs[r].in.signature, SignaturePrefix) THEN 401
  ELSE IF reqs[r].in.raw = <<>> THEN 400
  ELSE IF BufferFromHex(SignatureText(r))
            # createHmac(ConfigOf(r).value.webhookSecret, reqs[r].in.raw)
    THEN 401
  ELSE 0

\* C4 amended: such a request never reaches the Notifier; it is answered 400
\* by the payload check in main.ts, and in part_000 when the signature stage
\* lets it through; otherwise part_000 answers with the signature stage's
\* status (500 no secret, 401 missing or wrong signature, 400 no raw body).
C4_MissingFieldAfterSignature ==
  \A r \in Slots :
     (Arrived(r) /\ Configured(r) /\ reqs[r].in.event # "ping"
        /\ MissingField(r))
       => /\ ~Notified(r)
          /\ IF variant = "main" \/ SignatureStageStatus(r) = 0
               THEN reqs[r].res =
                      Response(400, "Malformed GitHub push event payload")
               ELSE reqs[r].res.status = SignatureStageStatus(r)

\* C4 witness: part_000 answers 400 to a correctly signed request whose
\* payload has no pusher, and 401 to one that carries no signature.
C4_Witness ==
  /\ variant = "signed"
  /\ Arrived(1) /\ Configured(1) /\ MissingField(1)
  /\ reqs[1].in.event = "push"
  /\ SignatureStageStatus(1) = 0
  /\ reqs[1].res = Response(400, "Malformed GitHub push event payload")

\* C6 as stated: a non-ping request to a configured project with an absent
\* or empty secret skips verification and proceeds to payload validation,
\* so it is never rejected for signature or secret reasons.
C6_NoSecretSkipsVerification ==
  \A r \in Slots :
     (Arrived(r) /\ Configured(r) /\ NoSecret(r)
        /\ reqs[r].in.event # "ping")
       => /\ "validate" \in Stages(r)
          /\ reqs[r].res.status # 401
          /\ reqs[r].res.body # "Webhook secret not configured for this project"

\* C6 amended: skipping happens in main.ts only, which never verifies; in
\* part_000 a non-ping request to a configured project with an absent or
\* empty secret is answered 500 "Webhook secret not configured" and reaches
\* neither the payload validation nor the Notifier.
C6_NoSecretIs500WhenSigned ==
  \A r \in Slots :
     (Arrived(r) /\ Configured(r) /\ NoSecret(r)
        /\ reqs[r].in.event # "ping")
       => IF variant = "main"
            THEN /\ "validate" \in Stages(r)
                 /\ Stages(r) \cap {"secret", "header", "hmac"} = {}
            ELSE /\ reqs[r].res =
                      Response(500, "Webhook secret not configured for this project")
                 /\ "validate" \notin Stages(r)
                 /\ ~Notified(r)

\* C6 witness: part_000 has answered 500 to a well-formed, signed push to a
\* project whose secret is the empty string.
C6_Witness ==
  /\ variant = "signed"
  /\ Arrived(1) /\ Configured(1)
  /\ "webhookSecret" \in DOMAIN ConfigOf(1).value
  /\ NoSecret(1)
  /\ reqs[1].in.event = "push"
  /\ ~MissingField(1)
  /\ reqs[1].res.status = 500

\* C7: over the whole handling of a request at most one send-message call
\* is issued: the handler issues at most one, and no step taken while the
\* request is being handled (the call failing, another request arriving or
\* ending) issues another.
C7_AtMostOneCall ==
  [][\A r \in Slots :
       /\ Len(reqs'[r].calls) <= 1
       /\ (Arrived(r) /\ reqs'[r].pc # "idle")
            => reqs'[r].calls = reqs[r].calls]_vars

\* C7 witness: a request whose only call failed has been answered 500 while
\* another request is still awaiting its own call.
C7_Witness ==
  \E r, q \in Slots :
     /\ r # q
     /\ reqs[r].pc = "done" /\ reqs[r].axios = "rejected"
     /\ Len(reqs[r].calls) = 1
     /\ reqs[q].pc = "awaiting" /\ Len(reqs[q].calls) = 1

\* C8: a request is answered 200 "OK" exactly when its Notifier call was
\* issued and succeeded; when the call failed it is answered 500 with the
\* delivery-failure body; while the call is pending there is no response.
C8_OkIffDelivered ==
  \A r \in Slots :
     /\ (reqs[r].res = Response(200, "OK"))
          <=> (Notified(r) /\ reqs[r].axios = "resolved")
     /\ (reqs[r].axios = "rejected")
          => (Notified(r)
              /\ reqs[r].res = Response(500, "Failed to send Telegram message"))
     /\ (reqs[r].axios = "pending")
          => (Notified(r) /\ reqs[r].res = NoResponse)
     /\ Notified(r) => reqs[r].axios # "none"

\* C8 witness: a request has been answered 500 after its call failed.
C8_Witness ==
  /\ reqs[1].axios = "rejected"
  /\ reqs[1].res.status = 500
  /\ Notified(1)

\* the line the claim prescribes for commit c
C10_Line(c) ==
  LET author == IF "author" \in DOMAIN c /\ "name" \in DOMAIN c.author
                  THEN c.author.name ELSE "unknown"
      count(f) == IF f \in DOMAIN c THEN ToString(Len(c[f])) ELSE "0"
      prefix == IF Len(c.id) > 7 THEN SubSeq(c.id, 1, 7) ELSE c.id
  IN "- " \o c.message \o " ([" \o prefix \o "](" \o c.url \o ")) by "
     \o author \o " (added: " \o count("added") \o ", modified: "
     \o count("modified") \o ", removed: " \o count("removed") \o ")"

RECURSIVE C10_Section(_)
\* the prescribed lines of a sequence of commits, in its order, with one
\* newline between two lines
C10_Section(cs) ==
  IF cs = <<>> THEN ""
  ELSE C10_Line(Head(cs))
       \o (IF Len(cs) > 1 THEN "\n" \o C10_Section(Tail(cs)) ELSE "")

\* the text s ends with the text t
EndsWith(s, t) ==
  Len(s) >= Len(t) /\ SubSeq(s, Len(s) - Len(t) + 1, Len(s)) = t

\* C10: the text sent for a validated push event ends, after the header
\* line, with exactly one line per commit in the order of the commits, each
\* of the prescribed form, joined by single newlines.
C10_CommitSection ==
  \A r \in Slots :
     Notified(r)
       => LET text == reqs[r].calls[1].text
              section == C10_Section(Payload(r).commits.items)
              header == SubSeq(text, 1, Len(text) - Len(section))
          IN /\ EndsWith(text, section)
             /\ EndsWith(header, "):" \o HeaderSep(variant))

\* C10 witness: a message was sent for a push of three commits, among them
\* one without author and file lists and one with an id of seven characters.
C10_Witness ==
  /\ Notified(1)
  /\ Len(Payload(1).commits.items) = 3
  /\ \E i \in 1..3 : "author" \notin DOMAIN Payload(1).commits.items[i]
  /\ \E i \in 1..3 : "added" \notin DOMAIN Payload(1).commits.items[i]
  /\ \E i \in 1..3 : Len(Payload(1).commits.items[i].id) > 7

\* C11: every request whose payload passes the PayloadValidator, whatever
\* its nested fields are, is answered once with a status among 200, 400,
\* 401, 404 and 500 (at the latest when its Notifier call ends), and the
\* process stays up to serve later requests.
C11_EveryRequestAnswered ==
  \A r \in Slots :
     (Arrived(r) /\ Configured(r) /\ ~Malformed(Payload(r)))
       => /\ procUp
          /\ reqs[r].pc \in {"awaiting", "done"}
          /\ reqs[r].pc = "done"
               => reqs[r].res.status \in {200, 400, 401, 404, 500}

\* the place of a stage in the pipeline
StageRank(stage) ==
  CASE stage = "lookup" -> 1 [] stage = "ping" -> 2 [] stage = "secret" -> 3
    [] stage = "header" -> 4 [] stage = "rawBody" -> 5 [] stage = "hmac" -> 6
    [] stage = "timingSafeEqual" -> 7 [] stage = "validate" -> 8
    [] stage = "format" -> 9 [] stage = "post" -> 10

\* the signature of the request in slot r verifies against its raw body
SignatureVerifies(r) ==
  /\ reqs[r].in.signature \notin {Undefined, ""}
  /\ StartsWith(reqs[r].in.signature, SignaturePrefix)
  /\ reqs[r].in.raw # <<>>
  /\ BufferFromHex(SignatureText(r))
       = createHmac(ConfigOf(r).value.webhookSecret, reqs[r].in.raw)

\* C12: the Notifier is invoked for a request only after the lookup of its
\* project succeeded, it was found not to be a ping, its signature passed
\* (in the signature-checking build) and its payload passed validation, in
\* this order; the stage that produces a response is the last one that runs.
C12_ShortCircuit ==
  \A r \in Slots :
     Arrived(r)
       => /\ \A i, j \in DOMAIN reqs[r].trace :
                i < j => StageRank(reqs[r].trace[i]) < StageRank(reqs[r].trace[j])
          /\ Notified(r)
               => /\ Configured(r)
                  /\ reqs[r].in.event # "ping"
                  /\ variant = "signed" => (~NoSecret(r) /\ SignatureVerifies(r))
                  /\ ~Malformed(Payload(r))
                  /\ reqs[r].trace[Len(reqs[r].trace)] = "post"
          /\ reqs[r].res.status = 404 => reqs[r].trace = <<"lookup">>
          /\ reqs[r].res.body = "pong" => reqs[r].trace = <<"lookup", "ping">>
          /\ reqs[r].res.status \in {400, 401}
               => Stages(r) \cap {"format", "post"} = {}

\* C13: requests are handled independently under every interleaving: a
\* request that awaits its Notifier call can still be completed whatever
\* the other requests do, and two requests with the same projectName,
\* headers and body and the same outcome of their Notifier calls have the
\* same response and the same outbound call.
C13_Independent ==
  \A r \in Slots :
     /\ reqs[r].pc = "awaiting" => procUp
     /\ \A q \in Slots :
           (Arrived(r) /\ Arrived(q) /\ reqs[r].in = reqs[q].in
              /\ reqs[r].axios = reqs[q].axios)
             => (reqs[r].res = reqs[q].res /\ reqs[r].calls = reqs[q].calls)

\* the parsed payload has a pusher, repository or commits that is absent,
\* null, 0, "" or false
FalsyField(r) ==
  \E f \in {"pusher", "repository", "commits"} :
     f \notin DOMAIN Payload(r) \/ Payload(r)[f].t \in {"null", "falsy"}

\* C14: in the signature-checking build the failure checks of a non-ping
\* request to a configured project have a fixed precedence: no secret gives
\* 500; else a missing header or one without the sha256= prefix gives 401;
\* else a missing raw body gives 400; else a digest that does not match
\* gives 401; else a malformed payload gives 400; else none of these
\* failures is reported.
C14_FailurePrecedence ==
  \A r \in Slots :
     (variant = "signed" /\ Arrived(r) /\ Configured(r)
        /\ reqs[r].in.event # "ping")
       => IF NoSecret(r)
            THEN reqs[r].res =
                   Response(500, "Webhook secret not configured for this project")
          ELSE IF reqs[r].in.signature \in {Undefined, ""}
                  \/ ~StartsWith(reqs[r].in.signature, "sha256=")
            THEN reqs[r].res = Response(401, "Missing or invalid signature")
          ELSE IF reqs[r].in.raw = <<>>
            THEN reqs[r].res =
                   Response(400, "Missing raw body for signature validation")
          ELSE IF ~SignatureVerifies(r)
            THEN reqs[r].res = Response(401, "Invalid signature")
          ELSE IF FalsyField(r)
            THEN reqs[r].res =
                   Response(400, "Malformed GitHub push event payload")
          ELSE /\ reqs[r].res.status \notin {400, 401}
               /\ "format" \in Stages(r)

\* C14 witness: a request with neither signature header nor body was
\* answered 401, and not 400, by a project that has a secret.
C14_Witness ==
  /\ variant = "signed"
  /\ Arrived(1) /\ Configured(1) /\ ~NoSecret(1)
  /\ reqs[1].in.event = "push"
  /\ reqs[1].in.signature = Undefined
  /\ reqs[1].in.raw = <<>>
  /\ reqs[1].res.status = 401

\* the parsed payload has a pusher, repository or commits that is absent or
\* null
NullField(r) ==
  \E f \in {"pusher", "repository", "commits"} :
     f \notin DOMAIN Payload(r) \/ Payload(r)[f].t = "null"

\* the PayloadValidator rejected the request in slot r
RejectedAsMalformed(r) ==
  /\ reqs[r].res = Response(400, "Malformed GitHub push event payload")
  /\ "format" \notin Stages(r)

\* C15 as stated: a payload that reaches the PayloadValidator is rejected as
\* malformed (400) exactly when pusher, repository or commits is absent or
\* null; with all three non-null it is passed on to the MessageFormatter.
C15_NonNullPasses ==
  \A r \in Slots :
     "validate" \in Stages(r)
       => /\ RejectedAsMalformed(r) <=> NullField(r)
          /\ ~NullField(r) => "format" \in Stages(r)

\* C15 amended: it is rejected exactly when one of the three is absent or
\* falsy (null, 0, "" or false); with all three truthy, an empty commits
\* sequence included, it is passed on to the MessageFormatter.
C15_TruthyPasses ==
  \A r \in Slots :
     "validate" \in Stages(r)
       => /\ RejectedAsMalformed(r) <=> FalsyField(r)
          /\ ~FalsyField(r) => "format" \in Stages(r)

\* C15 witness: a payload whose commits is 0 (neither absent nor null) has
\* been rejected with 400.
C15_Witness ==
  /\ "validate" \in Stages(1)
  /\ ~NullField(1)
  /\ Payload(1).commits.t = "falsy"
  /\ RejectedAsMalformed(1)

\* what the handler of src/main.ts does with the request in slot r
MainRun(r) == HandlerMain(projectConfigs, Request("main", reqs[r].in))

\* what the handler of src/unnamed/part_000 does with it
SignedRun(r) == HandlerSigned(projectConfigs, Request("signed", reqs[r].in))

\* the request in slot r names a configured project and passes the signature
\* check of part_000
PassesVerification(r) ==
  /\ Arrived(r) /\ Configured(r)
  /\ reqs[r].in.event # "ping"
  /\ ~NoSecret(r)
  /\ SignatureVerifies(r)

\* C16 as stated: for a request to a configured project that passes the
\* signature check of part_000, both variants give the same response and
\* issue the same send-message call.
C16_VariantsAgree ==
  \A r \in Slots :
     PassesVerification(r)
       => /\ MainRun(r).outcome = SignedRun(r).outcome
          /\ MainRun(r).res = SignedRun(r).res
          /\ MainRun(r).calls = SignedRun(r).calls

\* text ts is text tm with the mis-encoded rocket for the rocket and with one
\* newline doubled
SameButHeader(tm, ts) ==
  LET bm == SliceFrom(tm, Len(RocketMain))
      bs == SliceFrom(ts, Len(RocketSigned))
  IN /\ StartsWith(tm, RocketMain)
     /\ StartsWith(ts, RocketSigned)
     /\ \E i \in 1..Len(bm) :
           /\ SubSeq(bm, i, i) = "\n"
           /\ bs = SubSeq(bm, 1, i) \o "\n" \o SubSeq(bm, i + 1, Len(bm))

\* C16 amended: for such a request both variants give the same response and
\* issue the same number of send-message calls, to the same URL, chat and
\* thread and with link previews disabled; the calls differ in the parse
\* mode (Markdown in main.ts, MarkdownV2 in part_000) and in the header of
\* the text (emoji bytes, one newline against two before the commit lines).
C16_VariantsAgreeButMarkup ==
  \A r \in Slots :
     PassesVerification(r)
       => LET m == MainRun(r)
              s == SignedRun(r)
          IN /\ m.outcome = s.outcome
             /\ m.res = s.res
             /\ Len(m.calls) = Len(s.calls)
             /\ \A i \in DOMAIN m.calls :
                   /\ m.calls[i].url = s.calls[i].url
                   /\ m.calls[i].chat_id = s.calls[i].chat_id
                   /\ m.calls[i].message_thread_id
                        = s.calls[i].message_thread_id
                   /\ m.calls[i].disable_web_page_preview
                   /\ s.calls[i].disable_web_page_preview
                   /\ m.calls[i].parse_mode = "Markdown"
                   /\ s.calls[i].parse_mode = "MarkdownV2"
                   /\ SameButHeader(m.calls[i].text, s.calls[i].text)

\* C16 witness: a verified push to a project with a thread id, for which
\* both variants call the Notifier.
C16_Witness ==
  /\ PassesVerification(1)
  /\ MainRun(1).calls # <<>>
  /\ SignedRun(1).calls # <<>>
  /\ SignedRun(1).calls[1].message_thread_id # Undefined

\* C17: ProjectConfigs is what was loaded at start and no step changes it:
\* every step leaves the mapping as it is, and with it the result of the
\* lookup of every projectName.
C17_ConfigsNeverChange ==
  [][ /\ projectConfigs' = projectConfigs
      /\ \A n \in ProjectNames :
            Lookup(projectConfigs', n) = Lookup(projectConfigs, n) ]_vars

\* C17 witness: a request to a configured project went through lookup,
\* validation, formatting and a failed notification.
C17_Witness ==
  /\ Configured(1)
  /\ reqs[1].pc = "done"
  /\ reqs[1].axios = "rejected"
  /\ projectConfigs = loadProjectConfigs(configFile)

\* C18: two requests that carry the same PushEvent and are both notified
\* have byte-identical texts, whatever their projects and headers are and
\* whatever was handled before them.
C18_SameEventSameText ==
  \A r, q \in Slots :
     (Notified(r) /\ Notified(q) /\ Payload(r) = Payload(q))
       => /\ Len(reqs[r].calls) = Len(reqs[q].calls)
          /\ \A i \in DOMAIN reqs[r].calls :
                reqs[r].calls[i].text = reqs[q].calls[i].text

\* C18 witness: two requests in flight with the same PushEvent, for
\* different projects and with different signature headers, both notified.
C18_Witness ==
  /\ Notified(1) /\ Notified(2)
  /\ Payload(1) = Payload(2)
  /\ reqs[1].in.projectName # reqs[2].in.projectName
  /\ reqs[1].in.signature # reqs[2].in.signature

====
